---- MODULE Spec2Model ----
(***************************************************************************)
(* Model of src/main.py: the chicken-feed linear programme.                *)
(*                                                                         *)
(* Arithmetic.  The program computes in floats; the model computes in      *)
(* exact fixed point.  A weight is an integer number of 1/Unit kg, a       *)
(* calcium, salt or methionine coefficient an integer number of 1/CScale,  *)
(* a protein coefficient or target an integer number of 1/PScale.          *)
(*                                                                         *)
(* Engine.  The GLOP engine is external.  It is modelled by its contract:  *)
(* Solve returns OPTIMAL with a point that satisfies every registered      *)
(* bound and constraint and minimises the registered objective, or         *)
(* INFEASIBLE when no point does.  Points are searched on a finite         *)
(* lattice (Lattice, FreeCandidates), every point of which is a point of   *)
(* the real programme.                                                     *)
(***************************************************************************)
EXTENDS Integers, Sequences, FiniteSets, TLC

VARIABLES
    pc,             \* position in the script
    targets,        \* the target_percentage_* values of lines 66-75
    meth_scale,     \* multiplier applied to every methionine coefficient
    base_bounds,    \* <<min_weight, max_weight>> given to the base ingredient
    created,        \* Ingredient objects in construction order
    ingredients,    \* the list of lines 99-120
    solver_vars,    \* engine: registered variables [name, lb, ub]
    constraints,    \* engine: registered constraints [kind, coef, op, rhs]
    objective,      \* engine: <<>> or <<coef>> (minimised)
    status,         \* engine: result of the last Solve
    solution,       \* engine: name -> solved value, <<>> when there is none
    solve_calls,    \* number of Solve invocations
    engine_reads,   \* kinds of values read back from the engine
    loop_i,         \* index of the `for i in ingredients` loop of line 153
    output,         \* lines printed, [label, value]
    probe,          \* result of a weight() call made by an outside caller
    raised          \* the exception raised so far, "none" when there is none

vars == <<pc, targets, meth_scale, base_bounds, created, ingredients,
          solver_vars, constraints, objective, status, solution, solve_calls,
          engine_reads, loop_i, output, probe, raised>>

----------------------------------------------------------------------------
(* Scales and bounds *)

CScale == 100 * 100          \* calcium, salt, methionine: 1/10000
PScale == 10 * 100           \* protein: 1/1000
Unit == 4 * CScale           \* weight units per kg
Quarter == Unit \div 4       \* lattice pitch, 0.25 kg
Infinity == 2147483647       \* solver.infinity()

GridDiv == 2                 \* subdivisions of a bounded variable's range

----------------------------------------------------------------------------
(* Lines 65-82: parameters and the bound policy *)

total_feed_weight == 20 * Unit
other_count == 4
available_weight == total_feed_weight \div 2
average_weight == available_weight \div other_count
upper_limit == (3 * average_weight) \div 2
lower_limit == average_weight \div 2

HardTargets == [calcium |-> 400, salt |-> 30, methionine |-> 60, protein |-> 200]
HardBaseBounds == <<(4 * total_feed_weight) \div 10, (5 * total_feed_weight) \div 10>>

CreationOrder == <<"Pearl Millet", "Limestone Grit (Calcium)", "Salt",
                   "Maize", "Soybean", "Sorghum", "Sunflower Seeds">>
ListOrder == <<"Limestone Grit (Calcium)", "Salt", "Pearl Millet",
               "Maize", "Soybean", "Sorghum", "Sunflower Seeds">>
Flexible == {"Maize", "Soybean", "Sorghum", "Sunflower Seeds"}

\* Constructor arguments of each Ingredient(...) call; bb is the base
\* ingredient's <<min_weight, max_weight>>, ms the methionine multiplier.
IngredientArgs(name, bb, ms) ==
    CASE name = "Pearl Millet" ->
           [name |-> name, calcium |-> 5, salt |-> 0, methionine |-> 28 * ms,
            digestible_crude_protein |-> 120,
            min_weight |-> bb[1], max_weight |-> bb[2]]
      [] name = "Limestone Grit (Calcium)" ->
           [name |-> name, calcium |-> CScale, salt |-> 0, methionine |-> 0,
            digestible_crude_protein |-> 0,
            min_weight |-> 0, max_weight |-> Infinity]
      [] name = "Salt" ->
           [name |-> name, calcium |-> 0, salt |-> CScale, methionine |-> 0,
            digestible_crude_protein |-> 0,
            min_weight |-> 0, max_weight |-> Infinity]
      [] name = "Maize" ->
           [name |-> name, calcium |-> 4, salt |-> 0, methionine |-> 0,
            digestible_crude_protein |-> 75,
            min_weight |-> lower_limit, max_weight |-> upper_limit]
      [] name = "Soybean" ->
           [name |-> name, calcium |-> 25, salt |-> 0, methionine |-> 60 * ms,
            digestible_crude_protein |-> 440,
            min_weight |-> lower_limit, max_weight |-> upper_limit]
      [] name = "Sorghum" ->
           [name |-> name, calcium |-> 4, salt |-> 0, methionine |-> 9 * ms,
            digestible_crude_protein |-> 110,
            min_weight |-> lower_limit, max_weight |-> upper_limit]
      [] name = "Sunflower Seeds" ->
           [name |-> name, calcium |-> 30, salt |-> 0, methionine |-> 60 * ms,
            digestible_crude_protein |-> 340,
            min_weight |-> lower_limit, max_weight |-> upper_limit]

----------------------------------------------------------------------------
(* Helpers *)

Range(s) == {s[k] : k \in DOMAIN s}

\* n / d rounded to the nearest integer, ties to the even one: Python's
\* round() and its '.2f' formatting (d > 0)
RoundHalfEven(n, d) ==
    LET q == n \div d
        r == n % d
    IN  IF 2 * r < d THEN q
        ELSE IF 2 * r > d THEN q + 1
        ELSE IF q % 2 = 0 THEN q ELSE q + 1

----------------------------------------------------------------------------
(* The engine (pywraplp.Solver, line 8), by its contract *)

VarNames(svars) == {v.name : v \in Range(svars)}
VarOf(svars, n) == CHOOSE v \in Range(svars) : v.name = n
BoundedNames(svars) == {v.name : v \in {w \in Range(svars) : w.ub # Infinity}}
FreeNames(svars) == VarNames(svars) \ BoundedNames(svars)

\* value of a linear expression at the point x
Eval(coef, x) ==
    LET names == DOMAIN coef
        RECURSIVE Sum(_)
        Sum(S) == IF S = {} THEN 0
                  ELSE LET n == CHOOSE m \in S : TRUE
                       IN  coef[n] * x[n] + Sum(S \ {n})
    IN  Sum(names)

Satisfies(c, x) ==
    CASE c.op = ">=" -> Eval(c.coef, x) >= c.rhs
      [] c.op = "==" -> Eval(c.coef, x) = c.rhs
      [] c.op = "<=" -> Eval(c.coef, x) <= c.rhs

\* lattice of a variable bounded on both sides: GridDiv + 1 points from lb to
\* ub, on multiples of Quarter above lb
Lattice(lb, ub) ==
    IF lb > ub THEN {}
    ELSE {lb + (((k * (ub - lb)) \div GridDiv) \div Quarter) * Quarter :
             k \in 0..GridDiv}

\* values of a variable unbounded above, the bounded ones being at b: its
\* lower bound, and each value that makes tight a constraint in which it is
\* the only unbounded variable
FreeCandidates(svars, cons, u, b) ==
    LET lb == VarOf(svars, u).lb
        pinning == {c \in Range(cons) :
                      /\ u \in DOMAIN c.coef
                      /\ c.coef[u] # 0
                      /\ \A w \in (FreeNames(svars) \cap DOMAIN c.coef) \ {u} :
                            c.coef[w] = 0}
        rest(c) == c.rhs - Eval([n \in DOMAIN c.coef \cap DOMAIN b |-> c.coef[n]], b)
        tight == {rest(c) \div c.coef[u] :
                     c \in {d \in pinning : rest(d) % d.coef[u] = 0}}
    IN  {lb} \cup {t \in tight : t >= lb}

BoundedPoints(svars) ==
    LET B == BoundedNames(svars)
        all == UNION {Lattice(VarOf(svars, n).lb, VarOf(svars, n).ub) : n \in B}
    IN  {b \in [B -> all] :
            \A n \in B : b[n] \in Lattice(VarOf(svars, n).lb, VarOf(svars, n).ub)}

FreePoints(svars, cons, b) ==
    LET F == FreeNames(svars)
        all == UNION {FreeCandidates(svars, cons, u, b) : u \in F}
    IN  {f \in [F -> all] : \A u \in F : f[u] \in FreeCandidates(svars, cons, u, b)}

Candidates(svars, cons) ==
    UNION {{b @@ f : f \in FreePoints(svars, cons, b)} : b \in BoundedPoints(svars)}

FeasiblePoints(svars, cons) ==
    {x \in Candidates(svars, cons) : \A c \in Range(cons) : Satisfies(c, x)}

\* the minimisers of obj over the feasible points
OptimalPoints(svars, cons, obj) ==
    LET feas == FeasiblePoints(svars, cons)
        vals == {Eval(obj[1], x) : x \in feas}
        best == CHOOSE v \in vals : \A w \in vals : v <= w
    IN  IF obj = <<>> THEN feas
        ELSE {x \in feas : Eval(obj[1], x) = best}

\* MPVariable.solution_value(): the solved value, 0.0 when the engine holds
\* no solution
solution_value(st, sol, name) ==
    IF st = "OPTIMAL" THEN sol[name] ELSE 0

----------------------------------------------------------------------------
(* class Ingredient, lines 11-61 *)

\* __init__ keeps the four coefficients and the name (lines 21-26)
Ingredient(args) ==
    [name |-> args.name, calcium |-> args.calcium, salt |-> args.salt,
     methionine |-> args.methionine,
     digestible_crude_protein |-> args.digestible_crude_protein]

\* the variable registered without its lower bound
NumVar_NoLower(args) ==
    [name |-> args.name, lb |-> 0, ub |-> args.max_weight]

\* solver.NumVar(min_weight, max_weight, ...) of line 28
NumVar(args) ==
    [name |-> args.name, lb |-> args.min_weight, ub |-> args.max_weight]

\* int(x) in place of round(x)
round_Truncate(x) == (x \div Unit) * Unit

\* round(x) of a weight, in weight units
round(x) == RoundHalfEven(x, Unit) * Unit

\* the weight property, lines 30-35
weight(name, st, sol) ==
    IF name = "Salt" THEN solution_value(st, sol, name)
    ELSE round(solution_value(st, sol, name))

\* the result property, lines 54-58: the figure printed with '.2f', in
\* hundredths of a kg
result(name, st, sol) ==
    IF name = "Salt"
    THEN RoundHalfEven(solution_value(st, sol, name), Unit \div 100)
    ELSE RoundHalfEven(round(solution_value(st, sol, name)), Unit \div 100)

----------------------------------------------------------------------------
(* The linear system, lines 122-141 *)

Names(ings) == {i.name : i \in Range(ings)}
ByName(ings, n) == CHOOSE i \in Range(ings) : i.name = n

\* the mass constraint with <= in place of >=
MassConstraint_AtMost(ings) ==
    [kind |-> "mass", coef |-> [n \in Names(ings) |-> 1],
     op |-> "<=", rhs |-> total_feed_weight]

MassConstraint(ings) ==
    [kind |-> "mass", coef |-> [n \in Names(ings) |-> 1],
     op |-> ">=", rhs |-> total_feed_weight]

\* the calcium constraint with the salt target as right-hand side
CalciumConstraint_SaltTarget(ings, t) ==
    [kind |-> "calcium", coef |-> [n \in Names(ings) |-> ByName(ings, n).calcium],
     op |-> "==", rhs |-> t.salt * total_feed_weight]

CalciumConstraint(ings, t) ==
    [kind |-> "calcium", coef |-> [n \in Names(ings) |-> ByName(ings, n).calcium],
     op |-> "==", rhs |-> t.calcium * total_feed_weight]

SaltConstraint(ings, t) ==
    [kind |-> "salt", coef |-> [n \in Names(ings) |-> ByName(ings, n).salt],
     op |-> "==", rhs |-> t.salt * total_feed_weight]

ProteinConstraint(ings, t) ==
    [kind |-> "protein",
     coef |-> [n \in Names(ings) |-> ByName(ings, n).digestible_crude_protein],
     op |-> ">=", rhs |-> t.protein * total_feed_weight]

\* the objective with the methionine coefficient added to the protein one
ObjectiveExpr_WithMethionine(ings) ==
    [n \in Names(ings) |->
        ByName(ings, n).digestible_crude_protein + ByName(ings, n).methionine]

ObjectiveExpr(ings) ==
    [n \in Names(ings) |-> ByName(ings, n).digestible_crude_protein]

----------------------------------------------------------------------------
(* The report, lines 150-164 *)

\* solver.Objective().Value(), printed divided by total_feed_weight (line 150)
ObjectiveValue(obj, st, sol) ==
    IF st = "OPTIMAL" /\ obj # <<>> THEN Eval(obj[1], sol) ELSE 0

\* sum(...) of a sequence of numbers
RECURSIVE SumOver(_)
SumOver(xs) == IF xs = <<>> THEN 0 ELSE Head(xs) + SumOver(Tail(xs))

\* sum(i.weight for i in ingredients), line 157
TotalFeedWeight(ings, st, sol) ==
    SumOver([k \in DOMAIN ings |-> weight(ings[k].name, st, sol)])

\* the same sum with the calcium_weight property of lines 38-40
TotalCalciumWeight_Rounded(ings, st, sol) ==
    SumOver([k \in DOMAIN ings |-> ings[k].calcium * weight(ings[k].name, st, sol)])

\* sum(i.calcium * i.solver_num_var.solution_value() ...), line 159
TotalCalciumWeight(ings, st, sol) ==
    SumOver([k \in DOMAIN ings |-> ings[k].calcium * solution_value(st, sol, ings[k].name)])

\* sum(i.methionine * i.solver_num_var.solution_value() ...), line 163
TotalMethionine(ings, st, sol) ==
    SumOver([k \in DOMAIN ings |-> ings[k].methionine * solution_value(st, sol, ings[k].name)])

\* f"{.../total_feed_weight * 100:.2f}", lines 162-163, in hundredths of a
\* percent: (S / (CScale * total_feed_weight)) * 100 * 100 with CScale = 100 * 100
MethioninePercentage(ings, st, sol) ==
    RoundHalfEven(TotalMethionine(ings, st, sol), total_feed_weight)

----------------------------------------------------------------------------
(* The script, lines 64-167 *)

\* The script fixes its targets (lines 66-75) and coefficients; to exercise
\* both branches of line 146 the model draws the targets from sets that hold
\* the script's values (HardTargets) and the methionine coefficients from the
\* script's values times 1 or 2.
TargetChoices ==
    [calcium : {400, 0}, salt : {30, 40}, methionine : {60},
     protein : {200, 220, 240, 300}]

MethChoices == {1, 2}

\* bounds an outside caller may hand to the constructor: the script's own, a
\* minimum above the maximum, a negative minimum
BoundChoices ==
    {HardBaseBounds,
     <<10 * Unit, 8 * Unit>>,
     <<0 - 2 * Unit, 10 * Unit>>}

InitWith(T, M, B) ==
    /\ pc = "create"
    /\ targets \in T
    /\ meth_scale \in M
    /\ base_bounds \in B
    /\ created = <<>>
    /\ ingredients = <<>>
    /\ solver_vars = <<>>
    /\ constraints = <<>>
    /\ objective = <<>>
    /\ status = "NOT_SOLVED"
    /\ solution = <<>>
    /\ solve_calls = 0
    /\ engine_reads = {}
    /\ loop_i = 0
    /\ output = <<>>
    /\ probe = <<>>
    /\ raised = "none"

Init == InitWith(TargetChoices, MethChoices, {HardBaseBounds})

\* the list literal of lines 99-120 over the objects built so far
ListOf(objs) ==
    LET names == SelectSeq(ListOrder, LAMBDA n : n \in Names(objs))
    IN  [k \in 1..Len(names) |-> ByName(objs, names[k])]

\* the constraints started one Ingredient(...) call early
AllCreated_Early(n) == n >= Len(CreationOrder) - 1

\* the script has run all its Ingredient(...) calls after the n-th
AllCreated(n) == n = Len(CreationOrder)

\* lines 84-120: the next Ingredient(...) call
CreateIngredient ==
    /\ pc = "create"
    /\ LET n == Len(created) + 1
           args == IngredientArgs(CreationOrder[n], base_bounds, meth_scale)
       IN  /\ solver_vars' = Append(solver_vars, NumVar(args))
           /\ created' = Append(created, Ingredient(args))
           /\ IF AllCreated(n)
              THEN /\ ingredients' = ListOf(created')
                   /\ pc' = "mass"
              ELSE /\ ingredients' = ingredients
                   /\ pc' = "create"
    /\ UNCHANGED <<targets, meth_scale, base_bounds, constraints, objective,
                   status, solution, solve_calls, engine_reads, loop_i, output,
                   probe, raised>>

AddConstraint(at, c, next) ==
    /\ pc = at
    /\ constraints' = Append(constraints, c)
    /\ pc' = next
    /\ UNCHANGED <<targets, meth_scale, base_bounds, created, ingredients,
                   solver_vars, objective, status, solution, solve_calls,
                   engine_reads, loop_i, output, probe, raised>>

\* line 123
AddMass == AddConstraint("mass", MassConstraint(ingredients), "calcium")
\* lines 126-127
AddCalcium == AddConstraint("calcium", CalciumConstraint(ingredients, targets), "salt")
\* lines 130-131
AddSalt == AddConstraint("salt", SaltConstraint(ingredients, targets), "protein")
\* lines 134-135
AddProtein == AddConstraint("protein", ProteinConstraint(ingredients, targets), "objective")

\* line 141
SetObjective ==
    /\ pc = "objective"
    /\ objective' = <<ObjectiveExpr(ingredients)>>
    /\ pc' = "solve"
    /\ UNCHANGED <<targets, meth_scale, base_bounds, created, ingredients,
                   solver_vars, constraints, status, solution, solve_calls,
                   engine_reads, loop_i, output, probe, raised>>

\* line 143
Solve ==
    /\ pc = "solve"
    /\ LET opt == OptimalPoints(solver_vars, constraints, objective)
       IN  IF opt = {}
           THEN /\ status' = "INFEASIBLE"
                /\ solution' = <<>>
           ELSE /\ status' = "OPTIMAL"
                /\ \E x \in opt : solution' = x
    /\ solve_calls' = solve_calls + 1
    /\ pc' = "print_status"
    /\ UNCHANGED <<targets, meth_scale, base_bounds, created, ingredients,
                   solver_vars, constraints, objective, engine_reads, loop_i,
                   output, probe, raised>>

Emit(at, line, next) ==
    /\ pc = at
    /\ output' = Append(output, line)
    /\ pc' = next

\* line 144
PrintStatus ==
    /\ Emit("print_status", [label |-> "Status: " \o status, value |-> 0], "branch")
    /\ UNCHANGED <<targets, meth_scale, base_bounds, created, ingredients,
                   solver_vars, constraints, objective, status, solution,
                   solve_calls, engine_reads, loop_i, probe, raised>>

\* the test of line 146 taken as "a solve was made"
IsOptimal_Solved(st) == st # "NOT_SOLVED"

\* the test of line 146
IsOptimal(st) == st = "OPTIMAL"

\* lines 147-152
PrintHeader ==
    /\ IsOptimal(status)
    /\ Emit("branch",
             [label |-> "Optimal Protein % =",
              value |-> ObjectiveValue(objective, status, solution)],
             "results")
    /\ engine_reads' = engine_reads \cup {"wall_time", "iterations", "objective"}
    /\ loop_i' = 1
    /\ UNCHANGED <<targets, meth_scale, base_bounds, created, ingredients,
                   solver_vars, constraints, objective, status, solution,
                   solve_calls, probe, raised>>

\* lines 153-154, one iteration
PrintResult ==
    /\ loop_i \in 1..Len(ingredients)
    /\ Emit("results",
             [label |-> ingredients[loop_i].name,
              value |-> result(ingredients[loop_i].name, status, solution)],
             IF loop_i = Len(ingredients) THEN "total_weight" ELSE "results")
    /\ engine_reads' = engine_reads \cup {"solution_value"}
    /\ loop_i' = loop_i + 1
    /\ UNCHANGED <<targets, meth_scale, base_bounds, created, ingredients,
                   solver_vars, constraints, objective, status, solution,
                   solve_calls, probe, raised>>

\* line 157
PrintTotalWeight ==
    /\ Emit("total_weight",
             [label |-> "Total Feed Weight",
              value |-> TotalFeedWeight(ingredients, status, solution)],
             "total_calcium")
    /\ engine_reads' = engine_reads \cup {"solution_value"}
    /\ UNCHANGED <<targets, meth_scale, base_bounds, created, ingredients,
                   solver_vars, constraints, objective, status, solution,
                   solve_calls, loop_i, probe, raised>>

\* line 159
PrintCalcium ==
    /\ Emit("total_calcium",
             [label |-> "Total Calcium Weight",
              value |-> TotalCalciumWeight(ingredients, status, solution)],
             "methionine")
    /\ engine_reads' = engine_reads \cup {"solution_value"}
    /\ UNCHANGED <<targets, meth_scale, base_bounds, created, ingredients,
                   solver_vars, constraints, objective, status, solution,
                   solve_calls, loop_i, probe, raised>>

\* lines 162-164
PrintMethionine ==
    /\ Emit("methionine",
             [label |-> "Total Methionine Percentage",
              value |-> MethioninePercentage(ingredients, status, solution)],
             "done")
    /\ engine_reads' = engine_reads \cup {"solution_value"}
    /\ UNCHANGED <<targets, meth_scale, base_bounds, created, ingredients,
                   solver_vars, constraints, objective, status, solution,
                   solve_calls, loop_i, probe, raised>>

\* lines 166-167
PrintFailure ==
    /\ ~IsOptimal(status)
    /\ Emit("branch",
             [label |-> "The solver could not find an optimal solution.",
              value |-> 0],
             "done")
    /\ UNCHANGED <<targets, meth_scale, base_bounds, created, ingredients,
                   solver_vars, constraints, objective, status, solution,
                   solve_calls, engine_reads, loop_i, probe, raised>>

Next ==
    \/ CreateIngredient
    \/ AddMass
    \/ AddCalcium
    \/ AddSalt
    \/ AddProtein
    \/ SetObjective
    \/ Solve
    \/ PrintStatus
    \/ PrintHeader
    \/ PrintResult
    \/ PrintTotalWeight
    \/ PrintCalcium
    \/ PrintMethionine
    \/ PrintFailure

Spec == Init /\ [][Next]_vars

----------------------------------------------------------------------------
(* The Ingredient class under an outside caller: any bounds may be handed   *)
(* to the constructor, and weight may be read at any time.                  *)

InitApi == InitWith([calcium : {400}, salt : {30}, methionine : {60},
                     protein : {200, 240, 300}], {1}, BoundChoices)

\* a caller reads the weight property (lines 30-35) of an Ingredient while
\* the engine holds no solution
PrematureWeight ==
    /\ probe = <<>>
    /\ status # "OPTIMAL"
    /\ \E i \in Range(created) :
          probe' = <<[name |-> i.name, at |-> status,
                      value |-> weight(i.name, status, solution)]>>
    /\ engine_reads' = engine_reads \cup {"solution_value"}
    /\ UNCHANGED <<pc, targets, meth_scale, base_bounds, created, ingredients,
                   solver_vars, constraints, objective, status, solution,
                   solve_calls, loop_i, output, raised>>

NextApi == Next \/ PrematureWeight

SpecApi == InitApi /\ [][NextApi]_vars

----------------------------------------------------------------------------
(* Properties *)

\* sum of field f of each ingredient times its solved value
RECURSIVE WeightedSum(_, _, _)
WeightedSum(ings, f, sol) ==
    IF ings = <<>> THEN 0
    ELSE Head(ings)[f] * sol[Head(ings).name] + WeightedSum(Tail(ings), f, sol)

\* sum of the solved values
RECURSIVE PlainSum(_, _)
PlainSum(ings, sol) ==
    IF ings = <<>> THEN 0
    ELSE sol[Head(ings).name] + PlainSum(Tail(ings), sol)

Line(label) == {output[k] : k \in {j \in DOMAIN output : output[j].label = label}}

\* C1: after an Optimal solve the solved values sum to at least
\* total_feed_weight and their protein-weighted sum is at least
\* target_protein_fraction * total_feed_weight
C1_LowerBoundsHonoured ==
    status = "OPTIMAL" =>
        /\ PlainSum(ingredients, solution) >= total_feed_weight
        /\ WeightedSum(ingredients, "digestible_crude_protein", solution)
              >= targets.protein * total_feed_weight

C1_Witness ==
    /\ status = "OPTIMAL"
    /\ pc = "print_status"
    /\ targets.protein = 240
    /\ PlainSum(ingredients, solution) > total_feed_weight

C3_NoExtractionOnFailure ==
    /\ (solve_calls > 0 /\ status # "OPTIMAL") =>
          /\ engine_reads = {}
          /\ raised = "none"
          /\ \A k \in DOMAIN output :
                output[k].label \in {"Status: " \o status,
                                     "The solver could not find an optimal solution."}
          /\ pc = "done" =>
                Line("The solver could not find an optimal solution.") # {}
    /\ engine_reads # {} => status = "OPTIMAL"

C3_Witness ==
    /\ status = "INFEASIBLE"
    /\ pc = "done"
    /\ targets.calcium = 400

\* C4: weight is the solved value itself for Salt and, for every other
\* ingredient, a whole number of kg at most half a kg from the solved value;
\* the printed figure is that weight, Salt's to two decimals; reporting
\* changes neither the solved values nor the linear system
C4_WeightRounding ==
    /\ [](status = "OPTIMAL" =>
            \A k \in DOMAIN ingredients :
               LET n == ingredients[k].name
                   w == weight(n, status, solution)
                   d == w - solution[n]
                   c == Unit \div 100
               IN  IF n = "Salt"
                   THEN /\ w = solution[n]
                        /\ \A l \in Line(n) :
                              /\ 2 * (l.value * c - solution[n]) <= c
                              /\ 2 * (solution[n] - l.value * c) <= c
                   ELSE /\ w % Unit = 0
                        /\ 2 * d <= Unit
                        /\ 2 * d >= 0 - Unit
                        /\ \A l \in Line(n) : l.value * c = w)
    /\ [][status = "OPTIMAL" =>
            /\ solution' = solution
            /\ solver_vars' = solver_vars
            /\ constraints' = constraints
            /\ objective' = objective]_vars

C4_Witness ==
    /\ status = "OPTIMAL"
    /\ pc = "done"
    /\ solution["Salt"] % Unit # 0
    /\ \E n \in Flexible :
          /\ 2 * (solution[n] % Unit) = Unit
          /\ weight(n, status, solution) < solution[n]
    /\ \E n \in Flexible : weight(n, status, solution) > solution[n]

\* C5: an Ingredient created with min_weight > max_weight or min_weight < 0
\* fails with InvalidBoundsError and registers no variable
C5_InvalidBoundsRejected ==
    /\ \A v \in Range(solver_vars) : v.lb >= 0 /\ v.lb <= v.ub
    /\ (created # <<>> /\ (base_bounds[1] > base_bounds[2] \/ base_bounds[1] < 0)) =>
          raised = "InvalidBoundsError"

\* C6: weight read before a successful solve fails with NotSolvedError
\* instead of returning a number
C6_WeightBeforeSolveFails ==
    probe # <<>> => raised = "NotSolvedError"

\* C7: average = 2.5 kg, lower = 1.25 kg, upper = 3.75 kg; each flexible
\* ingredient is registered with exactly [lower, upper], there are other_count
\* of them, and after an Optimal solve each solved weight lies in [lower, upper]
C7_BoundPolicy ==
    /\ 2 * average_weight = 5 * Unit
    /\ 4 * lower_limit = 5 * Unit
    /\ 4 * upper_limit = 15 * Unit
    /\ 2 * lower_limit = average_weight
    /\ 2 * upper_limit = 3 * average_weight
    /\ \A v \in Range(solver_vars) :
          v.name \in Flexible => (4 * v.lb = 5 * Unit /\ 4 * v.ub = 15 * Unit)
    /\ pc # "create" =>
          Cardinality({v \in Range(solver_vars) : v.name \in Flexible}) = other_count
    /\ status = "OPTIMAL" =>
          \A n \in Flexible :
             4 * solution[n] >= 5 * Unit /\ 4 * solution[n] <= 15 * Unit

C7_Witness ==
    /\ status = "OPTIMAL"
    /\ pc = "print_status"
    /\ \E n \in Flexible : solution[n] = lower_limit
    /\ \E n \in Flexible : solution[n] = upper_limit

\* the figure weight reports for a solved value, stated without weight
Reported(name, x) ==
    IF name = "Salt" THEN x
    ELSE CHOOSE w \in {(x \div Unit) * Unit, (x \div Unit) * Unit + Unit} :
            /\ 2 * (w - x) <= Unit
            /\ 2 * (x - w) <= Unit
            /\ (2 * (x % Unit) = Unit => (w \div Unit) % 2 = 0)

RECURSIVE ReportedSum(_, _)
ReportedSum(ings, sol) ==
    IF ings = <<>> THEN 0
    ELSE Reported(Head(ings).name, sol[Head(ings).name]) + ReportedSum(Tail(ings), sol)

\* C8 as stated: every derived figure, the total feed weight included, is
\* computed from the unrounded solved values
C8_AllFromUnrounded ==
    /\ \A l \in Line("Total Feed Weight") :
          l.value = PlainSum(ingredients, solution)
    /\ \A l \in Line("Total Calcium Weight") :
          l.value = WeightedSum(ingredients, "calcium", solution)
    /\ \A l \in Line("Total Methionine Percentage") :
          l.value = RoundHalfEven(WeightedSum(ingredients, "methionine", solution),
                                  total_feed_weight)
    /\ \A l \in Line("Optimal Protein % =") :
          l.value = WeightedSum(ingredients, "digestible_crude_protein", solution)

\* C8 as amended: the total calcium mass, the methionine percentage and the
\* protein percentage are computed from the unrounded solved values, the
\* methionine percentage being rounded to two decimals for display only; the
\* total feed weight is the sum of the weight figures, that is of the solved
\* values rounded to whole kg for every ingredient but Salt
C8_UnroundedExceptTotalWeight ==
    /\ \A l \in Line("Total Feed Weight") :
          l.value = ReportedSum(ingredients, solution)
    /\ \A l \in Line("Total Calcium Weight") :
          l.value = WeightedSum(ingredients, "calcium", solution)
    /\ \A l \in Line("Total Methionine Percentage") :
          l.value = RoundHalfEven(WeightedSum(ingredients, "methionine", solution),
                                  total_feed_weight)
    /\ \A l \in Line("Optimal Protein % =") :
          l.value = WeightedSum(ingredients, "digestible_crude_protein", solution)

C8_Witness ==
    /\ pc = "done"
    /\ status = "OPTIMAL"
    /\ targets = HardTargets
    /\ \E l \in Line("Total Feed Weight") :
          l.value # PlainSum(ingredients, solution)
    /\ \E l \in Line("Total Calcium Weight") :
          l.value = targets.calcium * total_feed_weight

ConstraintKinds == <<"mass", "calcium", "salt", "protein">>

\* C9: the constraints are added once each, in the order mass, calcium, salt,
\* protein, only when every ingredient is registered; the objective is set
\* once after them; the solve is invoked once after the objective; every
\* constraint and the objective range over the ingredients of the list; after
\* the solve nothing is added and no second solve is made
C9_SingleShotOrder ==
    /\ [](/\ (constraints # <<>> \/ objective # <<>> \/ solve_calls > 0) =>
               /\ VarNames(solver_vars) = Range(CreationOrder)
               /\ Len(solver_vars) = Len(CreationOrder)
               /\ Names(ingredients) = Range(ListOrder)
          /\ Len(constraints) <= Len(ConstraintKinds)
          /\ \A k \in DOMAIN constraints :
                /\ constraints[k].kind = ConstraintKinds[k]
                /\ DOMAIN constraints[k].coef = Names(ingredients)
          /\ objective # <<>> =>
                /\ Len(constraints) = Len(ConstraintKinds)
                /\ DOMAIN objective[1] = Names(ingredients)
          /\ solve_calls <= 1
          /\ solve_calls = 1 => objective # <<>>
          /\ pc = "done" => solve_calls = 1)
    /\ [][/\ objective # <<>> => (objective' = objective /\ constraints' = constraints)
          /\ constraints # <<>> => solver_vars' = solver_vars
          /\ solve_calls = 1 => solve_calls' = 1]_vars

C9_Witness ==
    /\ pc = "done"
    /\ solve_calls = 1
    /\ Len(constraints) = 4
    /\ objective # <<>>
    /\ Len(solver_vars) = 7

\* the ingredients with their methionine coefficient erased
NoMethionine(ings) == [k \in DOMAIN ings |-> [ings[k] EXCEPT !.methionine = 0]]

\* C10: the linear system is the one built from the ingredients with their
\* methionine coefficients erased and from the targets with the methionine
\* target erased, and the status and the solved values are an outcome of the
\* engine on that system; an Optimal run reports in full whatever the
\* methionine percentage
C10_MethionineNotEnforced ==
    LET ings == NoMethionine(ingredients)
        t == [targets EXCEPT !.methionine = 0]
        system == <<MassConstraint(ings), CalciumConstraint(ings, t),
                    SaltConstraint(ings, t), ProteinConstraint(ings, t)>>
        opt == OptimalPoints(solver_vars, system, <<ObjectiveExpr(ings)>>)
    IN  /\ constraints = SubSeq(system, 1, Len(constraints))
        /\ objective # <<>> => objective = <<ObjectiveExpr(ings)>>
        /\ \A c \in Range(constraints) : c.kind # "methionine"
        /\ pc = "print_status" =>
              IF opt = {} THEN status = "INFEASIBLE"
              ELSE status = "OPTIMAL" /\ solution \in opt
        /\ (pc = "done" /\ status = "OPTIMAL") =>
              Line("Total Methionine Percentage") # {}

C10_Witness ==
    /\ pc = "done"
    /\ status = "OPTIMAL"
    /\ meth_scale = 1
    /\ \E l \in Line("Total Methionine Percentage") : l.value < targets.methionine

====
